---- MODULE Spec2Model ----
(***************************************************************************)
(* Model of ec-rs: the group law of short-Weierstrass curves over a prime  *)
(* field (src/lib.rs) and the modular inverse it rests on (src/utils.rs).  *)
(* Every library function is pure; each is an operator computed the way    *)
(* the code computes it, and an action is one call of a function with its  *)
(* arguments drawn from bounded sets.  A panic (failed assert) is the      *)
(* outcome Abort.                                                          *)
(***************************************************************************)
EXTENDS Integers, FiniteSets

VARIABLES curve, pc, self, other, k, inv_a, inv_m, result

vars == <<curve, pc, self, other, k, inv_a, inv_m, result>>

(* ---------------------------- bounds ----------------------------------- *)

\* coordinates are drawn from r + j*p with r in [0,p) and |j| <= Wrap
Wrap == 1
\* scalars passed to mul are drawn from -1 .. MaxK
MaxK == 4
\* inverse_mod is called with a in -MaxA .. MaxA and m in 1 .. MaxM
MaxA == 14
MaxM == 13
\* on curves with p <= SmallP, add is called with every pair of points
SmallP == 3

(* ----------------------------- values ---------------------------------- *)

\* outcome of a call whose assert failed
Abort == [tag |-> "Abort"]

\* PointValue::Infinity
Infinity == [tag |-> "Infinity"]

\* PointValue::Value { x, y }
Value(x, y) == [tag |-> "Value", x |-> x, y |-> y]

\* placeholder for an argument the current call does not have
None == [tag |-> "None"]

\* a BigInt returned by inverse_mod
Ok(v) == [tag |-> "Ok", val |-> v]

\* implementations of the Curve trait: TestCurve of the tests, y^2 = x^3 + 7
\* (the shape of P256K1Curve) over 5, and three more small odd prime fields,
\* the last one singular
Curves ==
    { [p |-> 13, a |-> 1, b |-> 7],
      [p |-> 5,  a |-> 0, b |-> 2],
      [p |-> 3,  a |-> 1, b |-> 0],
      [p |-> 7,  a |-> 1, b |-> 0],
      [p |-> 5,  a |-> 0, b |-> 0] }

(* ------------------------- utils.rs: inverse_mod ----------------------- *)

RECURSIVE inverse_mod_loop(_, _, _, _, _, _)
\* the while loop of inverse_mod; returns the final d and ud
inverse_mod_loop(c, d, uc, vc, ud, vd) ==
    IF c # 0
    THEN LET q == d \div c
             r == d % c
         IN  inverse_mod_loop(r, c, ud - q * uc, vd - q * vc, uc, vc)
    ELSE [d |-> d, ud |-> ud]

\* the value inverse_mod returns once the gcd assertion has passed
inverse_mod_ret(ud, m) ==
    IF ud > 0 THEN ud ELSE ud + m

\* faulty variant: the gcd assertion is left out
inverse_mod_unchecked(a0, m) ==
    LET a   == IF a0 < 0 \/ m <= a0 THEN a0 % m ELSE a0
        fin == inverse_mod_loop(a, m, 1, 0, 0, 1)
    IN  Ok(inverse_mod_ret(fin.ud, m))

inverse_mod(a0, m) ==
    LET a   == IF a0 < 0 \/ m <= a0 THEN a0 % m ELSE a0
        fin == inverse_mod_loop(a, m, 1, 0, 0, 1)
    IN  IF fin.d # 1
        THEN Abort
        ELSE Ok(inverse_mod_ret(fin.ud, m))

(* ------------------------- lib.rs: Point ------------------------------- *)

is_infinity(P) == P.tag = "Infinity"

is_valid(P, C) ==
    IF P.tag = "Infinity"
    THEN TRUE
    ELSE (P.y * P.y - (P.x * P.x * P.x + C.a * P.x + C.b)) % C.p = 0

\* faulty variant: x3 is left unreduced
double_point_raw_x(x, y, l, C) ==
    LET x3 == l * l - 2 * x
        y3 == (l * (x - x3) - y) % C.p
    IN  Value(x3, y3)

\* the point double builds from the slope l
double_point(x, y, l, C) ==
    LET x3 == (l * l - 2 * x) % C.p
        y3 == (l * (x - x3) - y) % C.p
    IN  Value(x3, y3)

\* faulty variant: the slope leaves out the curve's a (right only for a = 0)
double_slope_no_a(x, inv, C) ==
    ((3 * x * x) * inv) % C.p

\* the slope l of the tangent, inv being inverse_mod(2y, p)
double_slope(x, inv, C) ==
    ((3 * x * x + C.a) * inv) % C.p

double(P, C) ==
    IF P.tag = "Infinity"
    THEN Infinity
    ELSE LET inv == inverse_mod(2 * P.y, C.p)
         IN  IF inv = Abort
             THEN Abort
             ELSE double_point(P.x, P.y, double_slope(P.x, inv.val, C), C)

\* faulty variant: y3 is taken relative to the other operand's x
add_point_other_x(sx, sy, ox, l, C) ==
    LET x3 == (l * l - sx - ox) % C.p
        y3 == (l * (ox - x3) - sy) % C.p
    IN  Value(x3, y3)

\* the point add builds from the slope l of the chord
add_point(sx, sy, ox, l, C) ==
    LET x3 == (l * l - sx - ox) % C.p
        y3 == (l * (sx - x3) - sy) % C.p
    IN  Value(x3, y3)

\* faulty variant: the branch is opened on equal y
add_same_y(S, O) == S.y = O.y

\* the test that opens the x1 == x2 branch of add
add_same_x(S, O) == S.x = O.x

\* faulty variant: the sign of the second operand is wrong
add_opposite_minus(sy, oy, C) == (sy - oy) % C.p = 0

\* the test for inverse points inside the x1 == x2 branch
add_opposite(sy, oy, C) == (sy + oy) % C.p = 0

\* faulty variant: the identity rules reduce the operand they return
add_reducing(S, O, C) ==
    IF O.tag = "Infinity"
    THEN (IF S.tag = "Value" THEN Value(S.x % C.p, S.y % C.p) ELSE S)
    ELSE IF S.tag = "Infinity" THEN Value(O.x % C.p, O.y % C.p)
    ELSE IF add_same_x(S, O)
         THEN IF add_opposite(S.y, O.y, C)
              THEN Infinity
              ELSE double(S, C)
         ELSE LET inv == inverse_mod(O.x - S.x, C.p)
              IN  IF inv = Abort
                  THEN Abort
                  ELSE add_point(S.x, S.y, O.x, ((O.y - S.y) * inv.val) % C.p, C)

add(S, O, C) ==
    IF O.tag = "Infinity" THEN S
    ELSE IF S.tag = "Infinity" THEN O
    ELSE IF add_same_x(S, O)
         THEN IF add_opposite(S.y, O.y, C)
              THEN Infinity
              ELSE double(S, C)
         ELSE LET inv == inverse_mod(O.x - S.x, C.p)
              IN  IF inv = Abort
                  THEN Abort
                  ELSE add_point(S.x, S.y, O.x, ((O.y - S.y) * inv.val) % C.p, C)

RECURSIVE mul_loop(_, _, _, _)
\* the while loop of mul: ret is the accumulator, n the remaining count
mul_loop(ret, n, S, C) ==
    IF n > 0
    THEN LET nret == add(ret, S, C)
         IN  IF nret = Abort THEN Abort ELSE mul_loop(nret, n - 1, S, C)
    ELSE ret

\* faulty variant: the count is not decremented before the loop
mul_no_decrement(S, n, C) ==
    IF ~(n >= 0) THEN Abort
    ELSE IF n = 0 THEN Infinity
    ELSE mul_loop(S, n, S, C)

mul(S, n, C) ==
    IF ~(n >= 0) THEN Abort
    ELSE IF n = 0 THEN Infinity
    ELSE mul_loop(S, n - 1, S, C)

(* --------------------------- inputs ------------------------------------ *)

Coords(C) == (0 - Wrap * C.p) .. ((Wrap + 1) * C.p - 1)

AllPoints(C) == {Infinity} \cup {Value(x, y) : x \in Coords(C), y \in Coords(C)}

ValidPoints(C) == {P \in AllPoints(C) : is_valid(P, C)}

Reduced(P, C) ==
    P.tag = "Value" => (0 <= P.x /\ P.x < C.p /\ 0 <= P.y /\ P.y < C.p)

ReducedValid(P, C) == Reduced(P, C) /\ is_valid(P, C)

ReducedValidPoints(C) ==
    {P \in {Infinity} \cup {Value(x, y) : x \in 0 .. (C.p - 1), y \in 0 .. (C.p - 1)} :
        is_valid(P, C)}

AddInputs(C) ==
    (ValidPoints(C) \X ValidPoints(C))
    \cup (AllPoints(C) \X {Infinity})
    \cup ({Infinity} \X AllPoints(C))
    \cup {<<P, P>> : P \in AllPoints(C)}
    \cup (IF C.p <= SmallP THEN AllPoints(C) \X AllPoints(C) ELSE {})

(* ------------------------- the state machine --------------------------- *)

Init ==
    /\ curve \in Curves
    /\ pc = "idle"
    /\ self = None
    /\ other = None
    /\ k = 0
    /\ inv_a = 0
    /\ inv_m = 0
    /\ result = None

\* a call of utils::inverse_mod(a, m)
InverseMod ==
    /\ pc = "idle"
    /\ \E a \in (0 - MaxA) .. MaxA, m \in 1 .. MaxM :
          /\ inv_a' = a
          /\ inv_m' = m
          /\ result' = inverse_mod(a, m)
    /\ pc' = "inverse_mod"
    /\ UNCHANGED <<curve, self, other, k>>

\* a call of Point::double(&self)
Double ==
    /\ pc = "idle"
    /\ \E P \in AllPoints(curve) :
          /\ self' = P
          /\ result' = double(P, curve)
    /\ pc' = "double"
    /\ UNCHANGED <<curve, other, k, inv_a, inv_m>>

\* a call of self + other
Add ==
    /\ pc = "idle"
    /\ \E in \in AddInputs(curve) :
          /\ self' = in[1]
          /\ other' = in[2]
          /\ result' = add(in[1], in[2], curve)
    /\ pc' = "add"
    /\ UNCHANGED <<curve, k, inv_a, inv_m>>

\* a call of self * k
Mul ==
    /\ pc = "idle"
    /\ \E P \in AllPoints(curve), n \in (0 - 1) .. MaxK :
          /\ self' = P
          /\ k' = n
          /\ result' = mul(P, n, curve)
    /\ pc' = "mul"
    /\ UNCHANGED <<curve, other, inv_a, inv_m>>

Next == InverseMod \/ Double \/ Add \/ Mul

Spec == Init /\ [][Next]_vars

(* ------------------------- auxiliary notions --------------------------- *)

IsPrime(n) == n >= 2 /\ \A d \in 2 .. (n - 1) : n % d # 0

\* gcd(a, m) = 1, for m >= 1
Coprime(a, m) == \A d \in 2 .. m : ~(m % d = 0 /\ a % d = 0)

\* the curve has no singular point: p is odd and 4a^3 + 27b^2 /= 0 (mod p)
NonSingular(C) ==
    C.p > 2 /\ (4 * C.a * C.a * C.a + 27 * C.b * C.b) % C.p # 0

IsPoint(P) == P.tag \in {"Infinity", "Value"}

Affine(P) == P.tag = "Value"

\* the outcome of S + O when S or O is itself the outcome of a call
AddOutcome(S, O, C) ==
    IF S = Abort \/ O = Abort THEN Abort ELSE add(S, O, C)

(* ------------------------------ claims --------------------------------- *)

\* C1 (as stated): for every a and every m >= 1 with gcd(a, m) = 1,
\* inverse_mod(a, m) returns r with 0 <= r < m and a*r = 1 (mod m).
C1_InverseContract ==
    (pc = "inverse_mod" /\ Coprime(inv_a, inv_m))
        => /\ result.tag = "Ok"
           /\ 0 <= result.val
           /\ result.val < inv_m
           /\ (inv_a * result.val) % inv_m = 1 % inv_m

\* C2 (as stated): for every valid P, also one with y = 0 (mod p),
\* add(P, P) and double(P) both return equal points.
C2_DoublingConsistency ==
    (pc = "add" /\ self = other /\ is_valid(self, curve))
        => /\ IsPoint(result)
           /\ double(self, curve) = result

\* C2 (amended): for every valid P that is Infinity or has 2y /= 0 (mod p),
\* add(P, P) returns the point double(P) returns; for a valid affine P with
\* 2y = 0 (mod p), add(P, P) returns Infinity while double(P) aborts.
C2_DoublingConsistencyAmended ==
    (pc = "add" /\ self = other /\ is_valid(self, curve))
        => IF Affine(self) /\ (2 * self.y) % curve.p = 0
           THEN result = Infinity /\ double(self, curve) = Abort
           ELSE IsPoint(result) /\ double(self, curve) = result

C2_Witness ==
    /\ pc = "add"
    /\ self = other
    /\ Affine(self)
    /\ is_valid(self, curve)
    /\ ~Reduced(self, curve)
    /\ (2 * self.y) % curve.p # 0
    /\ Affine(result)

\* C3 (as stated): for all valid P, Q (p prime), in any integer encoding,
\* add(P, Q) completes and returns a valid point.
C3_Closure ==
    (pc = "add" /\ IsPrime(curve.p)
                /\ is_valid(self, curve) /\ is_valid(other, curve))
        => /\ IsPoint(result)
           /\ is_valid(result, curve)

\* C4: for all valid P, Q (p prime), add(P, Q) and add(Q, P) have the same
\* outcome: equal points, or both abort.
C4_Commutative ==
    (pc = "add" /\ IsPrime(curve.p)
                /\ is_valid(self, curve) /\ is_valid(other, curve))
        => result = add(other, self, curve)

C4_Witness ==
    /\ pc = "add"
    /\ is_valid(self, curve) /\ is_valid(other, curve)
    /\ Affine(self) /\ Affine(other)
    /\ self.x = other.x
    /\ self.y # other.y
    /\ Affine(result)

\* C5: mul(P, 0) = Infinity, mul(P, 1) = P unchanged, mul(P, 2) = add(P, P),
\* and mul(P, k+1) has the outcome of add(mul(P, k), P) for every k >= 1.
C5_RepeatedAddition ==
    (pc = "mul" /\ k >= 0)
        => /\ k = 0 => result = Infinity
           /\ k = 1 => result = self
           /\ k = 2 => result = add(self, self, curve)
           /\ k >= 1 => mul(self, k + 1, curve) = AddOutcome(result, self, curve)

C5_Witness ==
    /\ pc = "mul"
    /\ k = 3
    /\ Affine(self)
    /\ Affine(result)
    /\ result # self

\* C6: for m >= 2 and a, m not coprime, inverse_mod(a, m) aborts; and so
\* double of an affine point with y = 0 (mod p) aborts.
C6_NotCoprimeAborts ==
    /\ (pc = "inverse_mod" /\ inv_m >= 2 /\ ~Coprime(inv_a, inv_m))
          => result = Abort
    /\ (pc = "double" /\ Affine(self) /\ self.y % curve.p = 0)
          => result = Abort

C6_Witness ==
    /\ pc = "double"
    /\ Affine(self)
    /\ is_valid(self, curve)
    /\ self.y % curve.p = 0
    /\ self.y # 0
    /\ result = Abort

\* C7: for every point P, valid or not, reduced or not, add(P, Infinity)
\* and add(Infinity, P) return P with its stored coordinates, and
\* add(Infinity, Infinity) returns Infinity.
C7_Identity ==
    /\ (pc = "add" /\ other = Infinity) => result = self
    /\ (pc = "add" /\ self = Infinity) => result = other

C7_Witness ==
    /\ pc = "add"
    /\ self = Infinity
    /\ Affine(other)
    /\ ~Reduced(other, curve)
    /\ ~is_valid(other, curve)
    /\ result = other

\* C8 (as stated): every affine point returned by double, add or mul has
\* both coordinates in [0, p), whatever the encoding of the inputs.
C8_OutputsReduced ==
    (pc \in {"double", "add", "mul"} /\ Affine(result))
        => Reduced(result, curve)

\* C8 (amended): every affine point returned by double, and by add when
\* both operands are affine, has both coordinates in [0, p); an affine point
\* returned by mul has both coordinates in [0, p) or is the operand P itself.
C8_OutputsReducedAmended ==
    /\ (pc = "double" /\ Affine(result)) => Reduced(result, curve)
    /\ (pc = "add" /\ Affine(self) /\ Affine(other) /\ Affine(result))
          => Reduced(result, curve)
    /\ (pc = "mul" /\ Affine(result))
          => (Reduced(result, curve) \/ result = self)

C8_Witness ==
    /\ pc = "double"
    /\ Affine(self)
    /\ self.x < 0
    /\ self.y >= curve.p
    /\ Affine(result)

\* C9: on a non-singular curve over a prime p, for all valid P, Q, R with
\* coordinates in [0, p), add(add(P, Q), R) = add(P, add(Q, R)).
C9_Associative ==
    (pc = "add" /\ IsPrime(curve.p) /\ NonSingular(curve)
                /\ ReducedValid(self, curve)
                /\ ReducedValid(other, curve))
        => \A R \in ReducedValidPoints(curve) :
              AddOutcome(result, R, curve)
                  = AddOutcome(self, add(other, R, curve), curve)

C9_Witness ==
    /\ pc = "add"
    /\ NonSingular(curve)
    /\ ReducedValid(self, curve)
    /\ ReducedValid(other, curve)
    /\ self = other
    /\ Affine(result)
    /\ \E R \in ReducedValidPoints(curve) :
          Affine(R) /\ Affine(add(result, R, curve)) /\ R.x # result.x

\* C10: for a prime p and valid P, Q with coordinates in [0, p), add(P, Q)
\* does not abort, and neither does mul(P, k) for k >= 0.
C10_NoAbort ==
    /\ (pc = "add" /\ IsPrime(curve.p)
                   /\ ReducedValid(self, curve)
                   /\ ReducedValid(other, curve))
          => IsPoint(result)
    /\ (pc = "mul" /\ IsPrime(curve.p) /\ k >= 0
                   /\ ReducedValid(self, curve))
          => IsPoint(result)

C10_Witness ==
    /\ pc = "add"
    /\ ReducedValid(self, curve)
    /\ ReducedValid(other, curve)
    /\ Affine(self) /\ Affine(other)
    /\ self.x = other.x
    /\ self.y = 0
    /\ result = Infinity

====
